---- MODULE Spec2Model ----
(***************************************************************************)
(* PortSentry: the scan / diff / classify / persist pipeline and its       *)
(* background scheduler.                                                   *)
(*                                                                         *)
(*   core/port_scanner.py   PortScanner   (scan_ports, detect_changes)     *)
(*   core/alert_manager.py  AlertManager  (classifier, store with retry)   *)
(*   app.py                 background_scanner, trigger_scan, resolve_alert*)
(*                                                                         *)
(* Specifications:                                                         *)
(*   SpecScan      a PortScanner object driven by a sequence of scan_ports *)
(*                 calls                                                   *)
(*   SpecClassify  AlertManager._determine_alert_level on drawn inputs     *)
(*   SpecStore     the AlertManager store operations, each run through     *)
(*                 _db_operation_with_retry, attempt by attempt            *)
(*   Spec          the background scanner thread and the scan-now requests *)
(*                 with the threads they spawn, interleaved                *)
(*   SpecBuffer    the background thread's updates of the recent-alerts    *)
(*                 buffer, statement by statement                          *)
(*   SpecCollect   PortScanner.parse_port_info on drawn connection lists   *)
(***************************************************************************)
EXTENDS Integers, Sequences, FiniteSets, TLC

VARIABLES
    \* ---- PortScanner object driven sequentially (SpecScan) ----
    last_scan_result,   \* PortScanner.last_scan_result: dict key -> entry
    current_scan,       \* the list parse_port_info returned to the last call
    changes,            \* the dict detect_changes returned to the last call
    previous,           \* last_scan_result as the last call found it
    scanned,            \* whether scan_ports has been called at all
    open_reported,      \* history: keys whose latest New/Closed report was New
    repeated,           \* whether the last call collected what the call
                        \* before it collected
    first,              \* whether the last call was the first one
    enum_failed,        \* whether psutil.net_connections raised in the last
                        \* call
    \* ---- classifier (SpecClassify) ----
    cl_in,              \* [port_data, change_type] handed to the classifier
    cl_level,           \* level it returned ("" before the call)
    cl_msg,             \* message _generate_alert_message built for it
    cl_twin,            \* input of a second classification after the first
    cl_twin_level,      \* level of the second classification
    cl_twin_msg,        \* message of the second classification
    \* ---- AlertManager store (SpecStore) ----
    db_alerts,          \* committed rows of table alerts, in id order
    session,            \* the caller's db.session: [new, dirty]
    call,               \* the store operation in progress / last finished
    \* ---- application threads (Spec) ----
    is_scanning,        \* app_state['is_scanning']
    shared_last,        \* scanner.last_scan_result shared by all threads
    pc,                 \* per thread: position in its code
    t_scan,             \* per thread: local current_scan
    t_changes,          \* per thread: local changes
    t_passed,           \* per thread: changes handed to check_port_changes
    http,               \* status code of the last answer to POST /api/scan-now
                        \* (0 before the first)
    interval,           \* seconds the background thread sleeps (0 before the
                        \* first sleep)
    \* ---- recent-alerts buffer of the background thread (SpecBuffer) ----
    app_alerts,         \* app_state['alerts']: ids of the alerts it holds
    appended,           \* number of alerts ever appended to it
    b_pc,               \* position of the background thread in lines 102-109
    b_batch,            \* local new_alerts of the cycle
    \* ---- PortScanner.parse_port_info (SpecCollect) ----
    conns,              \* what psutil.net_connections(kind='inet') yields
    port_info,          \* the list parse_port_info returned
    parsed,             \* whether parse_port_info has returned
    \* ---- request threads resolving one alert (SpecWriters) ----
    w_pc,               \* position of each thread inside resolve_alert
    w_attempt,          \* its loop variable attempt
    w_seen,             \* resolved flag of the Alert object it loaded
    w_row               \* the alert's row in the table

scanVars   == <<last_scan_result, current_scan, changes, previous, scanned,
               repeated, first, enum_failed, open_reported>>
classVars  == <<cl_in, cl_level, cl_msg, cl_twin, cl_twin_level, cl_twin_msg>>
storeVars  == <<db_alerts, session, call>>
appVars    == <<is_scanning, shared_last, pc, t_scan, t_changes, t_passed, http,
               interval>>
bufVars    == <<app_alerts, appended, b_pc, b_batch>>
colVars    == <<conns, port_info, parsed>>
wrVars     == <<w_pc, w_attempt, w_seen, w_row>>
vars       == <<scanVars, classVars, storeVars, appVars, bufVars, colVars, wrVars>>

(***************************************************************************)
(* Bounds of the model.                                                    *)
(***************************************************************************)
MaxLen == 2        \* longest list parse_port_info returns in SpecScan
MaxAlerts == 2     \* rows the alerts table holds at most in SpecStore
MaxQuick == 2      \* scan threads of /api/scan-now alive at once in Spec
MaxBatch == 3      \* alerts check_port_changes returns at most in SpecBuffer
MaxAppended == 104 \* alerts appended to the buffer at most in SpecBuffer
MaxConns == 3      \* connections psutil reports at most in SpecCollect
MaxResolvers == 2  \* request threads resolving the same alert in SpecWriters

(***************************************************************************)
(* Snapshot entries.  A process name is the sequence of its characters, so *)
(* that lower() and the substring test of the classifier are computed.     *)
(***************************************************************************)
Name_sshd   == <<"s","s","h","d">>
Name_python == <<"p","y","t","h","o","n">>

\* port_data as built by parse_port_info: the fields the pipeline reads.
PortData(port, protocol, state, pid, name) ==
    [port |-> port, protocol |-> protocol, state |-> state, pid |-> pid,
     process_name |-> name]

\* f"{p['port']}-{p['protocol']}": the decimal port, a dash, the protocol.
\* Ports are non-negative and no protocol holds a dash, so two entries get
\* the same string exactly when port and protocol are equal: the pair.
Key(p) == <<p.port, p.protocol>>

\* A dict keyed by Key is the sequence of its values in insertion order,
\* no two with the same key.
Keys(d) == {Key(d[i]) : i \in 1..Len(d)}

HasKey(d, k) == \E i \in 1..Len(d) : Key(d[i]) = k

Get(d, k) == d[CHOOSE i \in 1..Len(d) : Key(d[i]) = k]

\* d[key(p)] = p: a key already present keeps its place and takes the new
\* value, a new key goes last.
Put(d, p) ==
    IF HasKey(d, Key(p))
    THEN [i \in 1..Len(d) |-> IF Key(d[i]) = Key(p) THEN p ELSE d[i]]
    ELSE Append(d, p)

RECURSIVE KeyedFrom(_, _)
KeyedFrom(d, list) ==
    IF list = <<>> THEN d ELSE KeyedFrom(Put(d, Head(list)), Tail(list))

\* {f"{p['port']}-{p['protocol']}": p for p in current_scan}
KeyedImage(list) == KeyedFrom(<<>>, list)

EmptyChanges == [new_ports |-> <<>>, closed_ports |-> <<>>, changed_ports |-> <<>>]

\* The test of the third loop of detect_changes.
StateOrPidDiffers(current_data, last_data) ==
    current_data.state # last_data.state \/ current_data.pid # last_data.pid

\* A detect_changes whose third loop compares the state only.
detect_changes_state_only(scan, last_dict) ==
    LET current_dict == KeyedImage(scan)
        IsNew(p) == ~HasKey(last_dict, Key(p))
        IsClosed(p) == ~HasKey(current_dict, Key(p))
        IsChanged(p) == HasKey(last_dict, Key(p))
                        /\ p.state # Get(last_dict, Key(p)).state
        ch == SelectSeq(current_dict, IsChanged)
    IN  [new_ports |-> SelectSeq(current_dict, IsNew),
         closed_ports |-> SelectSeq(last_dict, IsClosed),
         changed_ports |-> [i \in 1..Len(ch) |->
             [port_data |-> ch[i], previous_state |-> Get(last_dict, Key(ch[i]))]]]

\* A detect_changes that walks the scan list instead of the keyed dict.
detect_changes_unkeyed(scan, last_dict) ==
    LET current_dict == KeyedImage(scan)
        IsNew(p) == ~HasKey(last_dict, Key(p))
        IsClosed(p) == ~HasKey(current_dict, Key(p))
        IsChanged(p) == HasKey(last_dict, Key(p))
                        /\ StateOrPidDiffers(p, Get(last_dict, Key(p)))
        ch == SelectSeq(scan, IsChanged)
    IN  [new_ports |-> SelectSeq(scan, IsNew),
         closed_ports |-> SelectSeq(last_dict, IsClosed),
         changed_ports |-> [i \in 1..Len(ch) |->
             [port_data |-> ch[i], previous_state |-> Get(last_dict, Key(ch[i]))]]]

\* A detector that takes the first snapshot as the baseline and reports
\* nothing for it.
detect_changes_baseline(scan, last_dict) ==
    LET current_dict == KeyedImage(scan)
        IsNew(p) == last_dict # <<>> /\ ~HasKey(last_dict, Key(p))
        IsClosed(p) == ~HasKey(current_dict, Key(p))
        IsChanged(p) == HasKey(last_dict, Key(p))
                        /\ StateOrPidDiffers(p, Get(last_dict, Key(p)))
        ch == SelectSeq(current_dict, IsChanged)
    IN  [new_ports |-> SelectSeq(current_dict, IsNew),
         closed_ports |-> SelectSeq(last_dict, IsClosed),
         changed_ports |-> [i \in 1..Len(ch) |->
             [port_data |-> ch[i], previous_state |-> Get(last_dict, Key(ch[i]))]]]

\* PortScanner.detect_changes(current_scan) with self.last_scan_result = last_dict.
detect_changes(scan, last_dict) ==
    LET current_dict == KeyedImage(scan)
        IsNew(p) == ~HasKey(last_dict, Key(p))
        IsClosed(p) == ~HasKey(current_dict, Key(p))
        IsChanged(p) == HasKey(last_dict, Key(p))
                        /\ StateOrPidDiffers(p, Get(last_dict, Key(p)))
        ch == SelectSeq(current_dict, IsChanged)
    IN  [new_ports |-> SelectSeq(current_dict, IsNew),
         closed_ports |-> SelectSeq(last_dict, IsClosed),
         changed_ports |-> [i \in 1..Len(ch) |->
             [port_data |-> ch[i], previous_state |-> Get(last_dict, Key(ch[i]))]]]

\* A scan_ports that forgets what it saw.
StoredSnapshot_none(scan) == <<>>

\* A scan_ports that stores the first entry of each key instead of the last.
StoredSnapshot_first(scan) ==
    LET IsFirst(i) == \A j \in 1..(i-1) : Key(scan[j]) # Key(scan[i])
        RECURSIVE Keep(_)
        Keep(i) == IF i > Len(scan) THEN <<>>
                   ELSE IF IsFirst(i) THEN <<scan[i]>> \o Keep(i+1) ELSE Keep(i+1)
    IN  Keep(1)

\* The value scan_ports assigns to self.last_scan_result.
StoredSnapshot(scan) == KeyedImage(scan)

(***************************************************************************)
(* SpecScan: what parse_port_info may return.                              *)
(***************************************************************************)
\* Two keys.  On 22/TCP: a base entry and one differing from it in the state
\* alone, in the pid alone, in the process name alone.  On 8080/TCP: two
\* entries differing in the process name alone.
ScanEntries ==
    { PortData(22, "TCP", "LISTEN", 100, Name_sshd),
      PortData(22, "TCP", "ESTABLISHED", 100, Name_sshd),
      PortData(22, "TCP", "LISTEN", 200, Name_sshd),
      PortData(22, "TCP", "LISTEN", 100, Name_python),
      PortData(8080, "TCP", "LISTEN", 200, Name_python),
      PortData(8080, "TCP", "LISTEN", 200, Name_sshd) }

ScanLists == UNION { [1..n -> ScanEntries] : n \in 0..MaxLen }

InitScan ==
    /\ last_scan_result = <<>>          \* self.last_scan_result = {}
    /\ current_scan = <<>>
    /\ changes = EmptyChanges
    /\ previous = <<>>
    /\ scanned = FALSE
    /\ repeated = FALSE
    /\ first = FALSE
    /\ enum_failed = FALSE
    /\ open_reported = {}

\* An enumeration failure that goes unnoticed.
Collected_anyway(raised, list) == list

\* parse_port_info 114-160: port_info = [] and the try block around the
\* loop: when psutil.net_connections raises, the except branch prints the
\* error and port_info, still empty, is returned; list is what the loop
\* collects otherwise.
Collected(raised, list) == IF raised THEN <<>> ELSE list

\* PortScanner.scan_ports(), parse_port_info returning cur.
scan_ports(cur) ==
    /\ current_scan' = cur
    /\ changes' = detect_changes(cur, last_scan_result)
    /\ last_scan_result' = StoredSnapshot(cur)
    /\ previous' = last_scan_result
    /\ scanned' = TRUE
    /\ repeated' = (scanned /\ cur = current_scan)
    /\ open_reported' = (open_reported \cup Keys(changes'.new_ports))
                            \ Keys(changes'.closed_ports)

\* A call of scan_ports.  What the loop would have collected does not
\* matter when the enumeration raises: the one-entry lists stand for it.
ScanPorts ==
    /\ \E raised \in BOOLEAN :
        \E cur \in IF raised THEN { <<e>> : e \in ScanEntries } ELSE ScanLists :
            /\ scan_ports(Collected(raised, cur))
            /\ enum_failed' = raised
    /\ first' = ~scanned
    /\ UNCHANGED <<classVars, storeVars, appVars, bufVars, colVars, wrVars>>

(***************************************************************************)
(* PortScanner.parse_port_info and get_process_info: the collector.  A     *)
(* connection is what psutil.net_connections yields: whether it has a      *)
(* local address, its port, socket type, status, its pid (0 for None) and  *)
(* what looking the pid up with psutil.Process does: "ok" with the name,   *)
(* "NoSuchProcess", "AccessDenied", or "error" for any other exception.    *)
(***************************************************************************)
\* The default of process_info.get('name', 'unknown').
Name_unknown == <<"u","n","k","n","o","w","n">>

Conn(laddr, port, type, status, pid, kind, name) ==
    [laddr |-> laddr, port |-> port, type |-> type, status |-> status,
     pid |-> pid, lookup |-> [kind |-> kind, name |-> name]]

\* get_process_info 172-186: the dict of the process, or {} when the lookup
\* raises NoSuchProcess or AccessDenied; [found, name] here.
get_process_info(conn) ==
    IF conn.lookup.kind = "ok"
    THEN [found |-> TRUE, name |-> conn.lookup.name]
    ELSE [found |-> FALSE, name |-> <<>>]

\* An exception get_process_info does not catch.
LookupRaises(conn) == conn.lookup.kind = "error"

\* parse_port_info 125: self.get_process_info(pid) if pid else {}
ProcessInfo(conn) ==
    IF conn.pid # 0 THEN get_process_info(conn)
    ELSE [found |-> FALSE, name |-> <<>>]

\* parse_port_info 128: process_info.get('name', 'unknown')
ProcessName(info) == IF info.found THEN info.name ELSE Name_unknown

Skipped_never(name) == FALSE

\* parse_port_info 129-130: if process_name == 'unknown': continue
Skipped(name) == name = Name_unknown

\* parse_port_info 133-138
Protocol(type) ==
    IF type = "SOCK_STREAM" THEN "TCP"
    ELSE IF type = "SOCK_DGRAM" THEN "UDP" ELSE "UNKNOWN"

\* parse_port_info 117-160: the loop over the connections from the i-th on,
\* port_info holding acc.  An exception inside the loop ends it (157-158)
\* and what was collected so far is returned.
RECURSIVE ParseFrom(_, _, _)
ParseFrom(list, i, acc) ==
    IF i > Len(list) THEN acc
    ELSE LET conn == list[i] IN
         IF ~conn.laddr THEN ParseFrom(list, i + 1, acc)
         ELSE IF conn.pid # 0 /\ LookupRaises(conn) THEN acc
         ELSE LET name == ProcessName(ProcessInfo(conn)) IN
              IF Skipped(name) THEN ParseFrom(list, i + 1, acc)
              ELSE ParseFrom(list, i + 1,
                             Append(acc, PortData(conn.port, Protocol(conn.type),
                                                  conn.status, conn.pid, name)))

parse_port_info(list) == ParseFrom(list, 1, <<>>)

\* The connections drawn: a listener with a readable process, a socket
\* without pid, a process gone or not accessible at the lookup, a process
\* whose name is the word unknown, a lookup raising something else, and a
\* connection without local address.
ConnKinds ==
    { Conn(TRUE, 22, "SOCK_STREAM", "LISTEN", 100, "ok", Name_sshd),
      Conn(TRUE, 53, "SOCK_DGRAM", "NONE", 0, "none", <<>>),
      Conn(TRUE, 80, "SOCK_STREAM", "LISTEN", 200, "NoSuchProcess", <<>>),
      Conn(TRUE, 443, "SOCK_STREAM", "ESTABLISHED", 300, "AccessDenied", <<>>),
      Conn(TRUE, 8080, "SOCK_STREAM", "LISTEN", 400, "ok", Name_unknown),
      Conn(TRUE, 9, "SOCK_DGRAM", "NONE", 500, "error", <<>>),
      Conn(FALSE, 0, "SOCK_STREAM", "NONE", 600, "ok", Name_python) }

ConnLists == UNION { [1..n -> ConnKinds] : n \in 0..MaxConns }

IdleCollect ==
    /\ conns = <<>>
    /\ port_info = <<>>
    /\ parsed = FALSE

InitCollect ==
    /\ conns \in ConnLists
    /\ port_info = <<>>
    /\ parsed = FALSE

ParsePortInfo ==
    /\ ~parsed
    /\ \E raised \in BOOLEAN :
        port_info' = Collected(raised, parse_port_info(conns))
    /\ parsed' = TRUE
    /\ UNCHANGED <<conns, scanVars, classVars, storeVars, appVars, bufVars, wrVars>>

(***************************************************************************)
(* AlertManager: the risk classifier.                                      *)
(***************************************************************************)
\* self.high_risk_ports
high_risk_ports ==
    {21, 22, 23, 25, 53, 80, 110, 135, 139, 143, 443, 993, 995,
     1433, 1434, 1723, 3306, 3389, 5432, 5900, 6379, 27017}

\* self.medium_risk_ports
medium_risk_ports ==
    {161, 389, 636, 873, 2049, 3128, 3690, 4848, 5000, 5432, 5901,
     5984, 6379, 7001, 8000, 8080, 8081, 8443, 9000, 9200, 9300}

\* high_risk_processes of _determine_alert_level
high_risk_processes ==
    { <<"n","c">>, <<"n","c","a","t">>, <<"t","e","l","n","e","t">>,
      <<"f","t","p">>, <<"t","f","t","p">>, <<"s","s","h">>,
      <<"r","s","h">>, <<"r","e","x","e","c">> }

\* suspicious_states of _determine_alert_level
suspicious_states ==
    {"syn-sent", "syn-recv", "fin-wait-1", "fin-wait-2", "close-wait"}

UpperChars == <<"A","B","C","D","E","F","G","H","I","J","K","L","M",
                "N","O","P","Q","R","S","T","U","V","W","X","Y","Z">>
LowerChars == <<"a","b","c","d","e","f","g","h","i","j","k","l","m",
                "n","o","p","q","r","s","t","u","v","w","x","y","z">>

\* str.lower(), character by character.
Lower(name) ==
    [i \in 1..Len(name) |->
        IF \E j \in 1..Len(UpperChars) : UpperChars[j] = name[i]
        THEN LowerChars[CHOOSE j \in 1..Len(UpperChars) : UpperChars[j] = name[i]]
        ELSE name[i]]

\* needle in hay, for two strings.
Contains(hay, needle) ==
    \E i \in 1..(Len(hay) - Len(needle) + 1) :
        SubSeq(hay, i, i + Len(needle) - 1) = needle

\* A classifier whose first rule forgets the change type.
_determine_alert_level_any_kind(port_data, change_type) ==
    LET port == port_data.port
        process_name == Lower(port_data.process_name)
        state == port_data.state
    IN  IF port \in high_risk_ports THEN "ERROR"
        ELSE IF change_type = "new"
                /\ \E proc \in high_risk_processes : Contains(process_name, proc)
             THEN "ERROR"
        ELSE IF state \in suspicious_states THEN "WARNING"
        ELSE IF change_type = "new" /\ port \in medium_risk_ports THEN "WARNING"
        ELSE IF change_type = "closed" /\ port \in high_risk_ports THEN "WARNING"
        ELSE "INFO"

\* A classifier that tests the suspicious state before the tool rule.
_determine_alert_level_state_first(port_data, change_type) ==
    LET port == port_data.port
        process_name == Lower(port_data.process_name)
        state == port_data.state
    IN  IF change_type = "new" /\ port \in high_risk_ports THEN "ERROR"
        ELSE IF state \in suspicious_states THEN "WARNING"
        ELSE IF change_type = "new"
                /\ \E proc \in high_risk_processes : Contains(process_name, proc)
             THEN "ERROR"
        ELSE IF change_type = "new" /\ port \in medium_risk_ports THEN "WARNING"
        ELSE IF change_type = "closed" /\ port \in high_risk_ports THEN "WARNING"
        ELSE "INFO"

\* A classifier whose medium-risk rule forgets the change type.
_determine_alert_level_medium_any(port_data, change_type) ==
    LET port == port_data.port
        process_name == Lower(port_data.process_name)
        state == port_data.state
    IN  IF change_type = "new" /\ port \in high_risk_ports THEN "ERROR"
        ELSE IF change_type = "new"
                /\ \E proc \in high_risk_processes : Contains(process_name, proc)
             THEN "ERROR"
        ELSE IF state \in suspicious_states THEN "WARNING"
        ELSE IF port \in medium_risk_ports THEN "WARNING"
        ELSE IF change_type = "closed" /\ port \in high_risk_ports THEN "WARNING"
        ELSE "INFO"

\* AlertManager._determine_alert_level(port_data, change_type)
_determine_alert_level(port_data, change_type) ==
    LET port == port_data.port
        process_name == Lower(port_data.process_name)
        state == port_data.state
    IN  IF change_type = "new" /\ port \in high_risk_ports THEN "ERROR"
        ELSE IF change_type = "new"
                /\ \E proc \in high_risk_processes : Contains(process_name, proc)
             THEN "ERROR"
        ELSE IF state \in suspicious_states THEN "WARNING"
        ELSE IF change_type = "new" /\ port \in medium_risk_ports THEN "WARNING"
        ELSE IF change_type = "closed" /\ port \in high_risk_ports THEN "WARNING"
        ELSE IF change_type = "new" THEN "INFO"
        ELSE "INFO"

(***************************************************************************)
(* AlertManager._generate_alert_message.  The message is the sequence of   *)
(* the pieces the code concatenates: the base template of (change_type,    *)
(* level) with the values it interpolates, then the state note, then the   *)
(* risk note.  A piece is a record of one shape; a field the piece does    *)
(* not print is blank.                                                     *)
(***************************************************************************)
Piece(part, change_type, level, port, protocol, name, state) ==
    [part |-> part, change_type |-> change_type, level |-> level, port |-> port,
     protocol |-> protocol, name |-> name, state |-> state]

\* base_messages[change_type][level]: the templates of 'new' print port,
\* protocol and process name, those of 'closed' port and protocol.
BaseMessage(port_data, change_type, level) ==
    Piece("base", change_type, level, port_data.port, port_data.protocol,
          IF change_type = "new" THEN port_data.process_name ELSE <<>>, "")

\* if state and state != 'listening': message += " (... {state})"
StateNote(port_data) ==
    IF port_data.state # "" /\ port_data.state # "listening"
    THEN << Piece("state", "", "", 0, "", <<>>, port_data.state) >>
    ELSE <<>>

\* The tools the risk note of _generate_alert_message looks for (160).
note_processes == { <<"n","c">>, <<"n","c","a","t">>, <<"t","e","l","n","e","t">> }

\* if level == 'ERROR': the note on the port (158-159), or else on the
\* process (160-161).
RiskNote(port_data, level) ==
    IF level # "ERROR" THEN <<>>
    ELSE IF port_data.port \in high_risk_ports
         THEN << Piece("port_note", "", "", port_data.port, "", <<>>, "") >>
    ELSE IF \E proc \in note_processes :
                Contains(Lower(port_data.process_name), proc)
         THEN << Piece("tool_note", "", "", 0, "", port_data.process_name, "") >>
    ELSE <<>>

\* A generator that remembers the call before it: the message of a later
\* call carries one more note.
_generate_alert_message_again(port_data, change_type, level) ==
    << BaseMessage(port_data, change_type, level) >>
    \o StateNote(port_data) \o RiskNote(port_data, level)
    \o (IF cl_msg # <<>> THEN << Piece("state", "", "", 0, "", <<>>, "again") >>
        ELSE <<>>)

\* AlertManager._generate_alert_message(port_data, change_type, level)
_generate_alert_message(port_data, change_type, level) ==
    << BaseMessage(port_data, change_type, level) >>
    \o StateNote(port_data) \o RiskNote(port_data, level)

(***************************************************************************)
(* SpecClassify: the classifier applied to drawn inputs, twice: to cl_in   *)
(* and then to cl_twin, which has the change type, port, process name and  *)
(* state of cl_in and any protocol and pid.                                *)
(***************************************************************************)
Name_nc     == <<"n","c">>
Name_Ncat   == <<"N","c","a","t">>
Name_sync   == <<"s","y","n","c">>
Name_mysqld == <<"m","y","s","q","l","d">>

ClassifyNames == {Name_sshd, Name_python, Name_nc, Name_Ncat, Name_sync, Name_mysqld}

\* Every port of a risk set, and 12345, which is in neither.
ClassifyPorts == high_risk_ports \cup medium_risk_ports \cup {12345}

\* The connection statuses psutil reports, and the spellings the classifier
\* lists as suspicious.
PsutilStates ==
    {"ESTABLISHED", "SYN_SENT", "SYN_RECV", "FIN_WAIT1", "FIN_WAIT2",
     "TIME_WAIT", "CLOSE", "CLOSE_WAIT", "LAST_ACK", "LISTEN", "CLOSING", "NONE"}

ClassifyStates == PsutilStates \cup suspicious_states

ChangeTypes == {"new", "closed"}

\* The inputs that differ from input at most in protocol and pid.
Twins(input) ==
    { [input EXCEPT !.port_data.protocol = pr, !.port_data.pid = pid] :
        pr \in {"TCP", "UDP"}, pid \in {100, 200} }

InitClassify ==
    /\ cl_in \in [port_data : { PortData(p, "TCP", st, 100, n) :
                                  p \in ClassifyPorts, st \in ClassifyStates,
                                  n \in ClassifyNames },
                  change_type : ChangeTypes]
    /\ cl_level = ""
    /\ cl_msg = <<>>
    /\ cl_twin \in Twins(cl_in)
    /\ cl_twin_level = ""
    /\ cl_twin_msg = <<>>

IdleClassify ==
    /\ cl_in = [port_data |-> PortData(12345, "TCP", "LISTEN", 100, Name_python),
                change_type |-> "new"]
    /\ cl_level = ""
    /\ cl_msg = <<>>
    /\ cl_twin = cl_in
    /\ cl_twin_level = ""
    /\ cl_twin_msg = <<>>

\* check_port_changes 173-174 / 190-191: level = _determine_alert_level(...);
\* message = _generate_alert_message(..., level)
Classify ==
    /\ cl_level = ""
    /\ cl_level' = _determine_alert_level(cl_in.port_data, cl_in.change_type)
    /\ cl_msg' = _generate_alert_message(cl_in.port_data, cl_in.change_type, cl_level')
    /\ UNCHANGED <<cl_in, cl_twin, cl_twin_level, cl_twin_msg,
                   scanVars, storeVars, appVars, bufVars, colVars, wrVars>>

\* The same two calls on the second input, after the first classification.
ClassifyTwin ==
    /\ cl_level # ""
    /\ cl_twin_level = ""
    /\ cl_twin_level' = _determine_alert_level(cl_twin.port_data, cl_twin.change_type)
    /\ cl_twin_msg' = _generate_alert_message(cl_twin.port_data, cl_twin.change_type,
                                              cl_twin_level')
    /\ UNCHANGED <<cl_in, cl_level, cl_msg, cl_twin,
                   scanVars, storeVars, appVars, bufVars, colVars, wrVars>>

(***************************************************************************)
(* AlertManager: the store.  Table alerts is the sequence of its committed *)
(* rows in id order (ids are 1, 2, ...; a later row is a newer row).  A    *)
(* db.session holds the objects added and not yet committed (new) and the  *)
(* ids of the rows whose resolved flag was set and not yet committed       *)
(* (dirty).  The session belongs to the application context of the caller: *)
(* the background scanner keeps one for its whole life (app.py 75), a      *)
(* request gets a fresh one.  A session that is left without rollback      *)
(* keeps what it holds, and the next commit on it writes that too.         *)
(* A commit is atomic: when it raises, the table is as it was.             *)
(***************************************************************************)
max_retries == 3

Levels == {"INFO", "WARNING", "ERROR"}

EmptySession == [new |-> <<>>, dirty |-> {}]

ZeroStats == [total |-> 0, resolved |-> 0, unresolved |-> 0,
              by_level |-> [l \in Levels |-> 0]]

\* What an operation hands back, in one shape: a list ([] when rows is
\* empty), a bool, one Alert, or the stats dict.
ListResult(rows) == [kind |-> "list", rows |-> rows, flag |-> FALSE, stats |-> ZeroStats]
BoolResult(b)    == [kind |-> "bool", rows |-> <<>>, flag |-> b, stats |-> ZeroStats]
AlertResult(row) == [kind |-> "alert", rows |-> <<row>>, flag |-> FALSE, stats |-> ZeroStats]
StatsResult(st)  == [kind |-> "stats", rows |-> <<>>, flag |-> FALSE, stats |-> st]
NoResult         == [kind |-> "none", rows |-> <<>>, flag |-> FALSE, stats |-> ZeroStats]

\* Python truth of a result: [] and False are false, an Alert and a
\* non-empty dict are true.
Truthy(r) ==
    CASE r.kind = "list"  -> r.rows # <<>>
      [] r.kind = "bool"  -> r.flag
      [] r.kind = "alert" -> TRUE
      [] r.kind = "stats" -> TRUE
      [] OTHER            -> FALSE

\* The Alert objects _create_alerts builds: one per new_ports entry, then
\* one per closed_ports entry.
NewAlerts(chg) ==
    [i \in 1..Len(chg.new_ports) |->
        [level |-> _determine_alert_level(chg.new_ports[i], "new"),
         port |-> chg.new_ports[i].port, resolved |-> FALSE]]
    \o
    [i \in 1..Len(chg.closed_ports) |->
        [level |-> _determine_alert_level(chg.closed_ports[i], "closed"),
         port |-> chg.closed_ports[i].port, resolved |-> FALSE]]

Exists(db, id) == id \in 1..Len(db)

\* A lookup that falls back to the oldest row.
Lookup_first(db, id) == IF Exists(db, id) THEN id ELSE IF db # <<>> THEN 1 ELSE 0

\* The row _resolve_alert fetches with Alert.query.get(alert_id): 0 for None.
Lookup(db, id) == IF Exists(db, id) THEN id ELSE 0

\* An assignment that toggles the flag.
ResolvedValue_toggle(row) == ~row.resolved

\* The value _resolve_alert assigns to alert.resolved.
ResolvedValue(row) == TRUE

\* The session after the operation's work that precedes its commit.
Stage(op, arg, db, sess) ==
    CASE op = "check_port_changes" ->
            [sess EXCEPT !.new = @ \o NewAlerts(arg.changes)]
      [] op = "add_custom_alert" ->
            [sess EXCEPT !.new = Append(@, [level |-> arg.level, port |-> arg.port,
                                            resolved |-> FALSE])]
      [] op = "resolve_alert" ->
            IF Lookup(db, arg.id) # 0
            THEN [sess EXCEPT !.dirty = @ \cup {Lookup(db, arg.id)}]
            ELSE sess
      [] OTHER -> sess

\* Whether the operation reaches db.session.commit().
Commits(op, arg, db) ==
    CASE op = "check_port_changes" -> NewAlerts(arg.changes) # <<>>
      [] op = "add_custom_alert"   -> TRUE
      [] op = "resolve_alert"      -> Lookup(db, arg.id) # 0
      [] OTHER                     -> FALSE

\* Whether the operation touches the database at all.
TouchesDb(op, arg) ==
    op = "check_port_changes" => NewAlerts(arg.changes) # <<>>

\* A commit that writes the new objects over the table.
CommitDb_fresh(db, sess) ==
    IF sess.new = <<>> THEN db
    ELSE [i \in 1..Len(sess.new) |->
            [id |-> i, level |-> sess.new[i].level,
             port |-> sess.new[i].port, resolved |-> sess.new[i].resolved]]

\* db.session.commit(): the dirty rows are updated, the new objects are
\* inserted and get the next ids.
CommitDb(db, sess) ==
    [i \in 1..Len(db) |->
        IF i \in sess.dirty THEN [db[i] EXCEPT !.resolved = ResolvedValue(db[i])]
        ELSE db[i]]
    \o
    [i \in 1..Len(sess.new) |->
        [id |-> Len(db) + i, level |-> sess.new[i].level,
         port |-> sess.new[i].port, resolved |-> sess.new[i].resolved]]

Reverse(seq) == [i \in 1..Len(seq) |-> seq[Len(seq) + 1 - i]]

\* The limit argument: <<>> for None, <<n>> for the integer n.
\* "if limit:" is false for None and for 0.
LimitTruthy(limit) == limit # <<>> /\ limit[1] # 0

\* if limit: query = query.limit(limit)
Limited(rows, limit) ==
    IF LimitTruthy(limit) /\ limit[1] < Len(rows)
    THEN SubSeq(rows, 1, limit[1]) ELSE rows

CountLevel(db, l) == Cardinality({i \in 1..Len(db) : db[i].level = l})

\* _get_stats; every row of the model is inside the trailing window.
Stats(db) ==
    LET total == Len(db)
        res == Cardinality({i \in 1..Len(db) : db[i].resolved})
    IN  [total |-> total, resolved |-> res, unresolved |-> total - res,
         by_level |-> [l \in Levels |-> CountLevel(db, l)]]

\* The value the operation returns when nothing raises: db is the table
\* before the attempt, sess the session the attempt found.
OpResult(op, arg, db, sess) ==
    CASE op = "check_port_changes" ->
            LET after == CommitDb(db, Stage(op, arg, db, sess))
                n == Len(NewAlerts(arg.changes))
            IN  IF n = 0 THEN ListResult(<<>>)
                ELSE ListResult(SubSeq(after, Len(after) - n + 1, Len(after)))
      [] op = "add_custom_alert" ->
            LET after == CommitDb(db, Stage(op, arg, db, sess))
            IN  AlertResult(after[Len(after)])
      [] op = "resolve_alert" -> BoolResult(Lookup(db, arg.id) # 0)
      [] op = "get_alerts" ->
            LET Match(row) == row.resolved = arg.resolved
            IN  ListResult(Limited(Reverse(SelectSeq(db, Match)), arg.limit))
      [] op = "get_all_alerts" -> ListResult(Limited(Reverse(db), arg.limit))
      [] op = "get_alert_stats" -> StatsResult(Stats(db))
      [] OTHER -> NoResult

(***************************************************************************)
(* AlertManager._db_operation_with_retry, attempt by attempt.              *)
(*   call.attempt   the loop variable                                      *)
(*   call.tries     how many times operation() was invoked                 *)
(*   call.outcomes  how each invocation ended: ok, transient               *)
(*                  (OperationalError / DisconnectionError) or other       *)
(*   call.status    idle, running, backoff (in the except branch, before   *)
(*                  sleep and rollback), returned, raised                  *)
(*   call.before    table alerts when the call started                     *)
(***************************************************************************)
\* A handler that treats every exception as transient.
Retried_any(outcome) == TRUE

\* except (OperationalError, DisconnectionError): the exceptions that reach
\* the retrying handler; every other one falls to except Exception.
Retried(outcome) == outcome = "transient"

\* The loop gives up one attempt early.
MayRetry_early(attempt) == attempt < max_retries - 2

\* if attempt < self.max_retries - 1
MayRetry(attempt) == attempt < max_retries - 1

\* for attempt in range(self.max_retries)
LoopContinues(attempt) == attempt < max_retries

\* The last failure is re-raised, as DatabaseManager.execute_with_retry does.
ExhaustedStatus_raise == "raised"

\* The else branch of the handler: return [].
ExhaustedStatus == "returned"

\* The retry goes on without db.session.rollback().
RolledBack_not(sess) == sess

\* db.session.rollback()
RolledBack(sess) == EmptySession

\* What a caller gets when the operation did not return: [] from
\* _db_operation_with_retry, which get_alert_stats replaces by zero counts.
Degraded(op) ==
    IF op = "get_alert_stats" THEN StatsResult(ZeroStats) ELSE ListResult(<<>>)

\* The application context an operation runs in.
Context(op) == IF op = "check_port_changes" THEN "scanner" ELSE "request"

NoArg == [changes |-> EmptyChanges, id |-> 0, resolved |-> FALSE, limit |-> <<>>,
          level |-> "INFO", port |-> 0]

Entry22   == PortData(22, "TCP", "LISTEN", 100, Name_sshd)
Entry8080 == PortData(8080, "TCP", "LISTEN", 200, Name_python)

\* Port 22 now held by an established connection of the same process.
Entry22Now == PortData(22, "TCP", "ESTABLISHED", 100, Name_sshd)

\* What detect_changes hands over: new and closed keys, and the dict of a
\* scan whose only difference is the state of 22-TCP.
\* config.py 32: IGNORE_PORTS = [5432]
IGNORE_PORTS == {5432}

\* A listener on the port of the ignore list.
Entry5432 == PortData(5432, "TCP", "LISTEN", 300, Name_python)

StoreChanges ==
    { [new_ports |-> n, closed_ports |-> c, changed_ports |-> <<>>] :
        n \in {<<>>, <<Entry22>>, <<Entry5432>>}, c \in {<<>>, <<Entry8080>>} }
    \cup { detect_changes(<<Entry22Now>>, StoredSnapshot(<<Entry22>>)) }

StoreCalls ==
         { [op |-> "check_port_changes", arg |-> [NoArg EXCEPT !.changes = c]] :
              c \in StoreChanges }
    \cup { [op |-> "resolve_alert", arg |-> [NoArg EXCEPT !.id = i]] :
              i \in 1..(MaxAlerts + 1) }
    \cup { [op |-> "get_alerts", arg |-> [NoArg EXCEPT !.resolved = r, !.limit = l]] :
              r \in BOOLEAN, l \in {<<>>, <<0>>, <<1>>} }
    \cup { [op |-> "get_all_alerts", arg |-> [NoArg EXCEPT !.limit = l]] :
              l \in {<<>>, <<1>>} }
    \cup { [op |-> "get_alert_stats", arg |-> NoArg] }
    \cup { [op |-> "add_custom_alert", arg |-> [NoArg EXCEPT !.port = 8080]] }

NoCall == [op |-> "none", arg |-> NoArg, ctx |-> "request", attempt |-> 0,
           tries |-> 0, status |-> "idle", outcomes |-> <<>>,
           result |-> NoResult, before |-> <<>>]

InitStore ==
    /\ db_alerts = <<>>
    /\ session = [c \in {"scanner", "request"} |-> EmptySession]
    /\ call = NoCall

\* Rows the table would hold if everything pending were committed.
Pending(op, arg) ==
    Len(db_alerts) + Len(session["scanner"].new)
    + (CASE op = "check_port_changes" -> Len(NewAlerts(arg.changes))
         [] op = "add_custom_alert" -> 1
         [] OTHER -> 0)

\* A caller enters _db_operation_with_retry(operation).
StartCall ==
    /\ call.status \in {"idle", "returned", "raised"}
    /\ \E c \in StoreCalls :
        /\ Pending(c.op, c.arg) <= MaxAlerts
        /\ call' = [op |-> c.op, arg |-> c.arg, ctx |-> Context(c.op), attempt |-> 0,
                    tries |-> 0, status |-> "running", outcomes |-> <<>>,
                    result |-> NoResult, before |-> db_alerts]
        /\ session' = IF Context(c.op) = "request"
                      THEN [session EXCEPT !["request"] = EmptySession]
                      ELSE session
    /\ UNCHANGED <<db_alerts, scanVars, classVars, appVars, bufVars, colVars, wrVars>>

\* operation(*args, **kwargs) returns.
AttemptOk ==
    /\ call.status = "running"
    /\ LET sess == session[call.ctx]
           staged == Stage(call.op, call.arg, db_alerts, sess)
           commits == Commits(call.op, call.arg, db_alerts)
       IN  /\ db_alerts' = IF commits THEN CommitDb(db_alerts, staged) ELSE db_alerts
           /\ session' = [session EXCEPT
                             ![call.ctx] = IF commits THEN EmptySession ELSE staged]
           /\ call' = [call EXCEPT
                           !.tries = @ + 1,
                           !.outcomes = Append(@, "ok"),
                           !.status = "returned",
                           !.result = OpResult(call.op, call.arg, db_alerts, sess)]
    /\ UNCHANGED <<scanVars, classVars, appVars, bufVars, colVars, wrVars>>

\* Where an attempt may raise: at a query that precedes the session work
\* (late = FALSE) or at the commit (late = TRUE).
MayFailAt(op, arg, db, late) ==
    /\ TouchesDb(op, arg)
    /\ late => Commits(op, arg, db)
    /\ ~late => op \notin {"check_port_changes", "add_custom_alert"}

\* A failure path that rolls the session back before returning.
SessionAfterFailure_rollback(late) ==
    [session EXCEPT ![call.ctx] = EmptySession]

\* The session when operation() raises: what the attempt added before the
\* commit stays in it; neither except clause rolls back on its return path.
SessionAfterFailure(late) ==
    [session EXCEPT ![call.ctx] =
        IF late THEN Stage(call.op, call.arg, db_alerts, @) ELSE @]

\* operation() raises OperationalError or DisconnectionError.
AttemptTransient ==
    /\ call.status = "running"
    /\ \E late \in BOOLEAN :
        /\ MayFailAt(call.op, call.arg, db_alerts, late)
        /\ session' = SessionAfterFailure(late)
    /\ call' = IF Retried("transient") /\ MayRetry(call.attempt)
               THEN [call EXCEPT !.tries = @ + 1,
                                 !.outcomes = Append(@, "transient"),
                                 !.status = "backoff"]
               ELSE [call EXCEPT !.tries = @ + 1,
                                 !.outcomes = Append(@, "transient"),
                                 !.status = ExhaustedStatus,
                                 !.result = Degraded(call.op)]
    /\ UNCHANGED <<db_alerts, scanVars, classVars, appVars, bufVars, colVars, wrVars>>

\* operation() raises any other exception: return [] at once.
AttemptOther ==
    /\ call.status = "running"
    /\ \E late \in BOOLEAN :
        /\ MayFailAt(call.op, call.arg, db_alerts, late)
        /\ session' = SessionAfterFailure(late)
    /\ call' = IF Retried("other") /\ MayRetry(call.attempt)
               THEN [call EXCEPT !.tries = @ + 1,
                                 !.outcomes = Append(@, "other"),
                                 !.status = "backoff"]
               ELSE [call EXCEPT !.tries = @ + 1,
                                 !.outcomes = Append(@, "other"),
                                 !.status = "returned",
                                 !.result = Degraded(call.op)]
    /\ UNCHANGED <<db_alerts, scanVars, classVars, appVars, bufVars, colVars, wrVars>>

\* time.sleep(self.retry_delay); db.session.rollback(); next iteration.
Backoff ==
    /\ call.status = "backoff"
    /\ session' = [session EXCEPT ![call.ctx] = RolledBack(@)]
    /\ call' = IF LoopContinues(call.attempt + 1)
               THEN [call EXCEPT !.attempt = @ + 1, !.status = "running"]
               ELSE [call EXCEPT !.attempt = @ + 1, !.status = "returned",
                                 !.result = NoResult]
    /\ UNCHANGED <<db_alerts, scanVars, classVars, appVars, bufVars, colVars, wrVars>>

\* A route that tells the degraded [] from the False of an unknown id.
ResolveHttp_error(c) ==
    IF c.status = "raised" \/ c.result.kind = "list" THEN 500
    ELSE IF Truthy(c.result) THEN 200 ELSE 404

\* POST /api/resolve-alert/<id>: the status code the route answers with.
ResolveHttp(c) ==
    IF c.status = "raised" THEN 500
    ELSE IF Truthy(c.result) THEN 200 ELSE 404

(***************************************************************************)
(* app.py: the background scanner thread (thread 0, started by create_app  *)
(* with the first background_scanner definition; the second definition at  *)
(* line 322 is never started) and the threads spawned by trigger_scan      *)
(* (threads 1..MaxQuick).  All of them call scan_ports on the one          *)
(* PortScanner object, whose last_scan_result is shared_last here; a step  *)
(* is one access to shared state.                                          *)
(*                                                                         *)
(* pc of thread 0:  start -> collect -> detect -> store -> alert -> idle   *)
(*                  -> sleep -> start, and from any step inside the try    *)
(*                  block through the except branch to cooldown -> start   *)
(* pc of 1..MaxQuick:  unborn -> collect -> detect -> store -> done        *)
(***************************************************************************)
\* config.py 23-24 and the literal of time.sleep(10) in the except branch.
SCAN_INTERVAL_IDLE == 30
SCAN_INTERVAL_BUSY == 2
Cooldown == 10

\* Truth value of a dict in an "if": true when it has a key.
DictTruthy(d) == DOMAIN d # {}

\* background_scanner 114-116: interval = config.SCAN_INTERVAL_IDLE;
\* if scan_result['changes']: interval = config.SCAN_INTERVAL_BUSY
Interval(chg) ==
    IF DictTruthy(chg) THEN SCAN_INTERVAL_BUSY ELSE SCAN_INTERVAL_IDLE

ExceptFlag_keep(flag) == flag

\* An except branch that leaves the pass flagged as running.
ExceptFlag_set(flag) == TRUE

\* background_scanner 126: app_state['is_scanning'] = False in the except
\* branch, whatever the flag was.
ExceptFlag(flag) == FALSE

MayStartScan_always(flag) == TRUE

\* trigger_scan 265: the request goes on past the conflict answer only when
\* app_state['is_scanning'] is false.
MayStartScan(flag) == ~flag

\* Positions of the background thread inside its try block at which a call
\* can raise: scan_ports (85), the statistics (89-98), check_port_changes
\* and to_dict (102-107).
InTry == {"collect", "detect", "store", "alert", "idle"}
Background == 0
QuickThreads == 1..MaxQuick
Threads == {Background} \cup QuickThreads

InScanPorts == {"collect", "detect", "store"}

\* What parse_port_info may return to a thread.
AppLists == { <<>>, <<Entry22>>, <<Entry8080>> }

InitApp ==
    /\ is_scanning = FALSE
    /\ shared_last = <<>>
    /\ pc = [t \in Threads |-> IF t = Background THEN "start" ELSE "unborn"]
    /\ t_scan = [t \in Threads |-> <<>>]
    /\ t_changes = [t \in Threads |-> EmptyChanges]
    /\ t_passed = [t \in Threads |-> <<>>]
    /\ http = 0
    /\ interval = 0

\* background_scanner 81-82: app_state['is_scanning'] = True.  The locals of
\* the cycle before are dead from here on and are cleared.
BgStart ==
    /\ pc[Background] = "start"
    /\ is_scanning' = TRUE
    /\ pc' = [pc EXCEPT ![Background] = "collect"]
    /\ t_scan' = [t_scan EXCEPT ![Background] = <<>>]
    /\ t_changes' = [t_changes EXCEPT ![Background] = EmptyChanges]
    /\ t_passed' = [t_passed EXCEPT ![Background] = <<>>]
    /\ interval' = 0
    /\ UNCHANGED <<shared_last, http, scanVars, classVars, storeVars,
                   bufVars, colVars, wrVars>>

\* scan_ports 196: current_scan = self.parse_port_info()
Collect(t) ==
    /\ pc[t] = "collect"
    /\ \E cur \in AppLists : t_scan' = [t_scan EXCEPT ![t] = cur]
    /\ pc' = [pc EXCEPT ![t] = "detect"]
    /\ UNCHANGED <<is_scanning, shared_last, t_changes, t_passed, http,
                   interval, scanVars, classVars, storeVars,
                   bufVars, colVars, wrVars>>

\* scan_ports 198: changes = self.detect_changes(current_scan); the dict
\* self.last_scan_result names is read once (230) and never mutated.
Detect(t) ==
    /\ pc[t] = "detect"
    /\ t_changes' = [t_changes EXCEPT ![t] = detect_changes(t_scan[t], shared_last)]
    /\ pc' = [pc EXCEPT ![t] = "store"]
    /\ UNCHANGED <<is_scanning, shared_last, t_scan, t_passed, http,
                   interval, scanVars, classVars, storeVars,
                   bufVars, colVars, wrVars>>

\* scan_ports 200: self.last_scan_result = {...}; then the return to the
\* caller: background_scanner goes on to its alert step, quick_scan drops
\* the result and ends.  The local current_scan is not read again and is
\* cleared.
Store(t) ==
    /\ pc[t] = "store"
    /\ shared_last' = StoredSnapshot(t_scan[t])
    /\ pc' = [pc EXCEPT ![t] = IF t = Background THEN "alert" ELSE "done"]
    /\ t_scan' = [t_scan EXCEPT ![t] = <<>>]
    /\ UNCHANGED <<is_scanning, t_changes, t_passed, http,
                   interval, scanVars, classVars, storeVars,
                   bufVars, colVars, wrVars>>

\* background_scanner 101-102: scan_result['changes'] is a dict of three
\* keys, so it is always true and check_port_changes is always called.
BgAlert ==
    /\ pc[Background] = "alert"
    /\ t_passed' = [t_passed EXCEPT ![Background] =
                        IF DictTruthy(t_changes[Background])
                        THEN <<t_changes[Background]>> ELSE <<>>]
    /\ pc' = [pc EXCEPT ![Background] = "idle"]
    /\ UNCHANGED <<is_scanning, shared_last, t_scan, t_changes, http,
                   interval, scanVars, classVars, storeVars,
                   bufVars, colVars, wrVars>>

\* background_scanner 111-116: app_state['is_scanning'] = False, then the
\* choice of the local interval.
BgIdle ==
    /\ pc[Background] = "idle"
    /\ is_scanning' = FALSE
    /\ interval' = Interval(t_changes[Background])
    /\ pc' = [pc EXCEPT ![Background] = "sleep"]
    /\ UNCHANGED <<shared_last, t_scan, t_changes, t_passed, http,
                   scanVars, classVars, storeVars,
                   bufVars, colVars, wrVars>>

\* background_scanner 124-127: a call inside the try block raises; the
\* except branch logs, resets the flag and starts time.sleep(10).  The
\* locals of the pass are not read again and are cleared.
BgExcept ==
    /\ pc[Background] \in InTry
    /\ is_scanning' = ExceptFlag(is_scanning)
    /\ interval' = Cooldown
    /\ pc' = [pc EXCEPT ![Background] = "cooldown"]
    /\ t_scan' = [t_scan EXCEPT ![Background] = <<>>]
    /\ t_changes' = [t_changes EXCEPT ![Background] = EmptyChanges]
    /\ t_passed' = [t_passed EXCEPT ![Background] = <<>>]
    /\ UNCHANGED <<shared_last, http,
                   scanVars, classVars, storeVars, bufVars, colVars, wrVars>>

\* background_scanner 122 / 127: time.sleep returns and the while loop
\* starts its next pass.
BgWake ==
    /\ pc[Background] \in {"sleep", "cooldown"}
    /\ pc' = [pc EXCEPT ![Background] = "start"]
    /\ UNCHANGED <<is_scanning, shared_last, t_scan, t_changes, t_passed, http,
                   interval, scanVars, classVars, storeVars,
                   bufVars, colVars, wrVars>>

\* trigger_scan 265-266: a scan is flagged as in progress.
TriggerConflict ==
    /\ ~MayStartScan(is_scanning)
    /\ http' = 409
    /\ UNCHANGED <<is_scanning, shared_last, pc, t_scan, t_changes, t_passed,
                   interval, scanVars, classVars, storeVars,
                   bufVars, colVars, wrVars>>

\* trigger_scan 268-276: a thread running quick_scan is started.
TriggerStart ==
    /\ MayStartScan(is_scanning)
    /\ \E q \in QuickThreads :
        /\ pc[q] \in {"unborn", "done"}
        /\ pc' = [pc EXCEPT ![q] = "collect"]
        /\ t_scan' = [t_scan EXCEPT ![q] = <<>>]
        /\ t_changes' = [t_changes EXCEPT ![q] = EmptyChanges]
        /\ t_passed' = [t_passed EXCEPT ![q] = <<>>]
    /\ http' = 200
    /\ UNCHANGED <<is_scanning, shared_last, interval, scanVars, classVars, storeVars,
                   bufVars, colVars, wrVars>>

(***************************************************************************)
(* app.py 101-109: the recent-alerts buffer app_state['alerts'].  Only the  *)
(* background thread writes it: it extends the shared list in place (105)  *)
(* and then rebinds the key to the slice (107); every other thread can run *)
(* between the two statements.  An alert is modelled by its id, and ids    *)
(* are handed out in the order the alerts are appended.                    *)
(*                                                                         *)
(* b_pc:  check -> extend -> truncate -> end -> check,  check -> end when  *)
(*        check_port_changes returned an empty list                        *)
(***************************************************************************)
\* The literal of the slice at app.py 107.
BufferSize == 100

Newest_head(list) ==
    IF Len(list) <= BufferSize THEN list ELSE SubSeq(list, 1, BufferSize)

\* app.py 107: list[-100:]
Newest(list) ==
    IF Len(list) <= BufferSize THEN list
    ELSE SubSeq(list, Len(list) - BufferSize + 1, Len(list))

InitBuffer ==
    /\ app_alerts = <<>>
    /\ appended = 0
    /\ b_pc = "check"
    /\ b_batch = <<>>

\* app.py 102-104: alerts = check_port_changes(...); if alerts: new_alerts =
\* [alert.to_dict() for alert in alerts]
BufCheck ==
    /\ b_pc = "check"
    /\ \E k \in 0..MaxBatch :
        /\ appended + k <= MaxAppended
        /\ b_batch' = [i \in 1..k |-> appended + i]
        /\ b_pc' = IF k = 0 THEN "end" ELSE "extend"
    /\ UNCHANGED <<app_alerts, appended, scanVars, classVars, storeVars,
                   appVars, colVars, wrVars>>

\* app.py 105: app_state['alerts'].extend(new_alerts)
BufExtend ==
    /\ b_pc = "extend"
    /\ app_alerts' = app_alerts \o b_batch
    /\ appended' = appended + Len(b_batch)
    /\ b_pc' = "truncate"
    /\ UNCHANGED <<b_batch, scanVars, classVars, storeVars, appVars, colVars, wrVars>>

\* app.py 107: app_state['alerts'] = app_state['alerts'][-100:]
BufTruncate ==
    /\ b_pc = "truncate"
    /\ app_alerts' = Newest(app_alerts)
    /\ b_pc' = "end"
    /\ UNCHANGED <<appended, b_batch, scanVars, classVars, storeVars, appVars,
                   colVars, wrVars>>

\* The rest of the cycle and the start of the next one.
BufNextCycle ==
    /\ b_pc = "end"
    /\ b_batch' = <<>>
    /\ b_pc' = "check"
    /\ UNCHANGED <<app_alerts, appended, scanVars, classVars, storeVars,
                   appVars, colVars, wrVars>>

(***************************************************************************)
(* Request threads in POST /api/resolve-alert/<id>, all on the id of one   *)
(* stored alert.  The development server handles each request in a thread  *)
(* of its own and each has its own session; AlertManager holds no lock.    *)
(* A step is one statement that reaches the database.                      *)
(*                                                                         *)
(* w_pc:  idle -> get -> commit -> idle, and from get or commit through    *)
(*        backoff back to get, or to idle when the call gives up           *)
(***************************************************************************)
Resolvers == 1..MaxResolvers

\* No Alert object in the thread's session.
NotLoaded == <<>>

InitWriters ==
    /\ w_pc = [r \in Resolvers |-> "idle"]
    /\ w_attempt = [r \in Resolvers |-> 0]
    /\ w_seen = [r \in Resolvers |-> NotLoaded]
    /\ w_row = [resolved |-> FALSE]

\* app.py 250-254: the route calls alert_manager.resolve_alert(alert_id),
\* which enters _db_operation_with_retry: attempt = 0.
WStart(r) ==
    /\ w_pc[r] = "idle"
    /\ w_pc' = [w_pc EXCEPT ![r] = "get"]
    /\ w_attempt' = [w_attempt EXCEPT ![r] = 0]
    /\ UNCHANGED <<w_seen, w_row,
                   scanVars, classVars, storeVars, appVars, bufVars, colVars>>

\* alert = Alert.query.get(alert_id): a plain SELECT of the row.
WGet(r) ==
    /\ w_pc[r] = "get"
    /\ w_seen' = [w_seen EXCEPT ![r] = <<w_row.resolved>>]
    /\ w_pc' = [w_pc EXCEPT ![r] = "commit"]
    /\ UNCHANGED <<w_attempt, w_row,
                   scanVars, classVars, storeVars, appVars, bufVars, colVars>>

\* alert.resolved = True; db.session.commit(); return True.
WCommit(r) ==
    /\ w_pc[r] = "commit"
    /\ w_row' = [w_row EXCEPT !.resolved = ResolvedValue([resolved |-> w_seen[r][1]])]
    /\ w_pc' = [w_pc EXCEPT ![r] = "idle"]
    /\ w_seen' = [w_seen EXCEPT ![r] = NotLoaded]
    /\ UNCHANGED <<w_attempt,
                   scanVars, classVars, storeVars, appVars, bufVars, colVars>>

\* The query or the commit raises: a retried exception before the last
\* attempt leads to the sleep, anything else to return [].
WFail(r) ==
    /\ w_pc[r] \in {"get", "commit"}
    /\ \E outcome \in {"transient", "other"} :
        w_pc' = [w_pc EXCEPT ![r] =
                    IF Retried(outcome) /\ MayRetry(w_attempt[r])
                    THEN "backoff" ELSE "idle"]
    /\ w_seen' = [w_seen EXCEPT ![r] = IF w_pc'[r] = "idle" THEN NotLoaded ELSE @]
    /\ UNCHANGED <<w_attempt, w_row,
                   scanVars, classVars, storeVars, appVars, bufVars, colVars>>

\* time.sleep(self.retry_delay); db.session.rollback(); next attempt.
WBackoff(r) ==
    /\ w_pc[r] = "backoff"
    /\ w_seen' = [w_seen EXCEPT ![r] = NotLoaded]
    /\ w_attempt' = [w_attempt EXCEPT ![r] = @ + 1]
    /\ w_pc' = [w_pc EXCEPT ![r] = "get"]
    /\ UNCHANGED <<w_row,
                   scanVars, classVars, storeVars, appVars, bufVars, colVars>>

(***************************************************************************)
(* The specifications.                                                     *)
(***************************************************************************)
Next ==
    \/ BgStart
    \/ \E t \in Threads : Collect(t)
    \/ \E t \in Threads : Detect(t)
    \/ \E t \in Threads : Store(t)
    \/ BgAlert
    \/ BgIdle
    \/ BgExcept
    \/ BgWake
    \/ TriggerConflict
    \/ TriggerStart

Init ==
    InitApp /\ InitScan /\ IdleClassify /\ InitStore /\ InitBuffer /\ IdleCollect
    /\ InitWriters

Spec == Init /\ [][Next]_vars

\* The scheduler thread keeps running: the OS schedules it, time.sleep
\* returns, and the collector and store calls it makes return.  Whether a
\* pass raises is left open: BgExcept carries no fairness condition.
SpecLive ==
    /\ Init
    /\ [][Next]_vars
    /\ WF_vars(BgStart)
    /\ WF_vars(Collect(Background))
    /\ WF_vars(Detect(Background))
    /\ WF_vars(Store(Background))
    /\ WF_vars(BgAlert)
    /\ WF_vars(BgIdle)
    /\ WF_vars(BgWake)

NextWriters ==
    \/ \E r \in Resolvers : WStart(r)
    \/ \E r \in Resolvers : WGet(r)
    \/ \E r \in Resolvers : WCommit(r)
    \/ \E r \in Resolvers : WFail(r)
    \/ \E r \in Resolvers : WBackoff(r)

SpecWriters == Init /\ [][NextWriters]_vars

NextScan == ScanPorts

SpecScan == Init /\ [][NextScan]_vars

NextClassify ==
    \/ Classify
    \/ ClassifyTwin

InitDrawClassify ==
    InitClassify /\ InitScan /\ InitStore /\ InitApp /\ InitBuffer /\ IdleCollect
    /\ InitWriters

SpecClassify == InitDrawClassify /\ [][NextClassify]_vars

NextStore ==
    \/ StartCall
    \/ AttemptOk
    \/ AttemptTransient
    \/ AttemptOther
    \/ Backoff

SpecStore == Init /\ [][NextStore]_vars

NextBuffer ==
    \/ BufCheck
    \/ BufExtend
    \/ BufTruncate
    \/ BufNextCycle

SpecBuffer == Init /\ [][NextBuffer]_vars

NextCollect == ParsePortInfo

InitDrawCollect ==
    InitCollect /\ InitScan /\ IdleClassify /\ InitStore /\ InitApp /\ InitBuffer
    /\ InitWriters

SpecCollect == InitDrawCollect /\ [][NextCollect]_vars

(***************************************************************************)
(* Properties.                                                             *)
(***************************************************************************)
Scanning == {t \in Threads : pc[t] \in InScanPorts}

\* C1: single-flight: at no time are two executions of scan_ports in
\* progress, whether started by the background loop or by scan-now.
C1_SingleFlight == Cardinality(Scanning) <= 1

HasNewOrClosed(chg) == chg.new_ports # <<>> \/ chg.closed_ports # <<>>

\* C2: no change is lost: a thread that has come back from scan_ports (the
\* snapshot replaced) and is past its alert step, with a new or closed key
\* in the changes it computed, has handed those changes to
\* check_port_changes.
C2_NoChangeLost ==
    \A t \in Threads :
        (pc[t] \in {"done", "idle", "sleep"} /\ HasNewOrClosed(t_changes[t]))
            => t_passed[t] = <<t_changes[t]>>

CountKey(seq, k) == Cardinality({i \in 1..Len(seq) : Key(seq[i]) = k})

CountChanged(seq, k) == Cardinality({i \in 1..Len(seq) : Key(seq[i].port_data) = k})

B2N(b) == IF b THEN 1 ELSE 0

\* C3: after a scan, each key only in the current list is in new_ports
\* exactly once (however often the list holds it), each key only in the
\* previous snapshot is in closed_ports exactly once, and no key is in more
\* than one of new_ports, closed_ports, changed_ports.
C3_NewClosedOnce ==
    \A k \in Keys(current_scan) \cup Keys(previous) :
        LET n == CountKey(changes.new_ports, k)
            c == CountKey(changes.closed_ports, k)
            m == CountChanged(changes.changed_ports, k)
        IN  /\ (k \in Keys(current_scan) /\ k \notin Keys(previous)) => n = 1
            /\ (k \in Keys(previous) /\ k \notin Keys(current_scan)) => c = 1
            /\ B2N(n > 0) + B2N(c > 0) + B2N(m > 0) <= 1

C3_Witness ==
    /\ scanned
    /\ \E i, j \in 1..Len(current_scan) :
          /\ i < j
          /\ Key(current_scan[i]) = Key(current_scan[j])
          /\ current_scan[i] # current_scan[j]
          /\ Key(current_scan[i]) \notin Keys(previous)
          /\ CountKey(changes.new_ports, Key(current_scan[i])) = 1
    /\ \E k \in Keys(previous) :
          k \notin Keys(current_scan) /\ CountKey(changes.closed_ports, k) = 1

\* The entry of the list that the keyed dict keeps for k: the last one.
LastWithKey(list, k) ==
    list[CHOOSE i \in 1..Len(list) :
            Key(list[i]) = k /\ \A j \in (i+1)..Len(list) : Key(list[j]) # k]

\* C4: a key in both snapshots whose state or pid differs has exactly one
\* changed_ports entry, carrying the current and the previous entry, and is
\* in neither new_ports nor closed_ports; with state and pid equal it is in
\* no change set, whatever else differs.
C4_ChangedOnce ==
    \A k \in Keys(current_scan) \cap Keys(previous) :
        LET p == Get(previous, k)
            c == LastWithKey(current_scan, k)
            n == CountKey(changes.new_ports, k)
            cl == CountKey(changes.closed_ports, k)
            m == CountChanged(changes.changed_ports, k)
        IN  IF c.state # p.state \/ c.pid # p.pid
            THEN /\ m = 1 /\ n = 0 /\ cl = 0
                 /\ \E i \in 1..Len(changes.changed_ports) :
                       changes.changed_ports[i] = [port_data |-> c, previous_state |-> p]
            ELSE m = 0 /\ n = 0 /\ cl = 0

C4_Witness ==
    /\ scanned
    /\ \E k \in Keys(current_scan) \cap Keys(previous) :
          /\ LastWithKey(current_scan, k).state = Get(previous, k).state
          /\ LastWithKey(current_scan, k).pid # Get(previous, k).pid
          /\ CountChanged(changes.changed_ports, k) = 1
    /\ \E k \in Keys(current_scan) \cap Keys(previous) :
          /\ LastWithKey(current_scan, k).state = Get(previous, k).state
          /\ LastWithKey(current_scan, k).pid = Get(previous, k).pid
          /\ LastWithKey(current_scan, k).process_name # Get(previous, k).process_name
          /\ CountChanged(changes.changed_ports, k) = 0

\* C5: a scan_ports call that collects what the call before it collected
\* returns empty new_ports, closed_ports and changed_ports.
C5_RepeatedScanIsQuiet == repeated => changes = EmptyChanges

C5_Witness ==
    /\ repeated
    /\ Len(current_scan) = 2
    /\ Key(current_scan[1]) = Key(current_scan[2])
    /\ current_scan[1].state # current_scan[2].state
    /\ changes = EmptyChanges

\* C6: on a high-risk port, whatever the process name and the state, a new
\* port is classified ERROR and a closed port WARNING.
C6_HighRiskPort ==
    (cl_level # "" /\ cl_in.port_data.port \in high_risk_ports) =>
        /\ cl_in.change_type = "new" => cl_level = "ERROR"
        /\ cl_in.change_type = "closed" => cl_level = "WARNING"

C6_Witness ==
    /\ cl_in.change_type = "closed"
    /\ cl_in.port_data.port = 3306
    /\ cl_in.port_data.state = "LISTEN"
    /\ cl_in.port_data.process_name = Name_nc
    /\ cl_level = "WARNING"

LastOutcome == IF call.outcomes = <<>> THEN "none" ELSE call.outcomes[Len(call.outcomes)]

\* max_retries - 1 transient failures, then success.
FailThenSucceed ==
    [i \in 1..max_retries |-> IF i < max_retries THEN "transient" ELSE "ok"]

AllTransient == [i \in 1..max_retries |-> "transient"]

\* C7: bounded retry: the operation is invoked at most max_retries times; a
\* call gives up on a transient failure only at the max_retries-th
\* invocation; and a call that failed transiently max_retries - 1 times and
\* then succeeded returns what the operation returns on the table as the
\* call found it, with a clean session.
C7_BoundedRetry ==
    /\ call.tries <= max_retries
    /\ (call.status = "returned" /\ LastOutcome = "transient")
          => call.tries = max_retries
    /\ (call.status = "returned" /\ call.outcomes = FailThenSucceed)
          => /\ call.tries = max_retries
             /\ call.result = OpResult(call.op, call.arg, call.before, EmptySession)

C7_Witness ==
    /\ call.status = "returned"
    /\ call.outcomes = FailThenSucceed
    /\ call.op = "check_port_changes"
    /\ Len(call.result.rows) = 2
    /\ Len(db_alerts) = Len(call.before) + 2

\* C8: no store operation raises to its caller, and one whose max_retries
\* attempts all failed transiently returns the empty result (zero counts
\* for get_alert_stats) and leaves the table as it was.
C8_DegradeOnExhaustion ==
    /\ call.status # "raised"
    /\ (call.status = "returned" /\ call.outcomes = AllTransient) =>
          /\ IF call.op = "get_alert_stats"
             THEN call.result.kind = "stats" /\ call.result.stats = ZeroStats
             ELSE call.result.kind = "list" /\ call.result.rows = <<>>
          /\ db_alerts = call.before

C8_Witness ==
    /\ call.status = "returned"
    /\ call.outcomes = AllTransient
    /\ call.op = "check_port_changes"
    /\ call.before # <<>>
    /\ call.result.rows = <<>>

\* C9: resolve_alert on an existing id, when the store does not fail,
\* returns success (HTTP 200) on the first call and on every later call,
\* and leaves the table as the call found it except for that alert's
\* resolved flag, which is true: a call on a resolved alert changes nothing.
C9_ResolveIdempotent ==
    (/\ call.op = "resolve_alert"
     /\ call.status = "returned"
     /\ LastOutcome = "ok"
     /\ Exists(call.before, call.arg.id)) =>
        /\ call.result = BoolResult(TRUE)
        /\ ResolveHttp(call) = 200
        /\ db_alerts = [call.before EXCEPT ![call.arg.id].resolved = TRUE]
        /\ call.before[call.arg.id].resolved => db_alerts = call.before

C9_Witness ==
    /\ call.op = "resolve_alert"
    /\ call.status = "returned"
    /\ LastOutcome = "ok"
    /\ Exists(call.before, call.arg.id)
    /\ call.before[call.arg.id].resolved
    /\ Len(db_alerts) = 2
    /\ ResolveHttp(call) = 200

\* C10: resolve_alert on an id the table does not hold never changes the
\* table and is answered with HTTP 404; the lookup that finds nothing is
\* not retried: when it does not fail, the call ends after one attempt
\* with False.
C10_ResolveUnknown ==
    (call.op = "resolve_alert" /\ ~Exists(call.before, call.arg.id)) =>
        /\ db_alerts = call.before
        /\ call.status = "returned" =>
              /\ ResolveHttp(call) = 404
              /\ LastOutcome = "ok" => call.result = BoolResult(FALSE)
              /\ call.outcomes[1] = "ok" => call.tries = 1

C10_Witness ==
    /\ call.op = "resolve_alert"
    /\ call.status = "returned"
    /\ ~Exists(call.before, call.arg.id)
    /\ call.before # <<>>
    /\ call.outcomes = <<"ok">>
    /\ call.tries = 1
    /\ ResolveHttp(call) = 404

\* C11: in every reachable state, the states between two statements of a
\* cycle included, the recent-alerts buffer holds at most 100 entries.
C11_BufferBounded == Len(app_alerts) <= BufferSize

Min(a, b) == IF a <= b THEN a ELSE b

\* The last n of the alerts 1..total, oldest first.
LastAppended(total, n) == [i \in 1..n |-> total - n + i]

\* C12: after every completed cycle the buffer is, in insertion order, the
\* last min(100, total) of all the alerts ever appended to it.
C12_NewestKept ==
    b_pc = "end" => app_alerts = LastAppended(appended, Min(BufferSize, appended))

C12_Witness ==
    /\ b_pc = "end"
    /\ appended > BufferSize
    /\ Len(b_batch) > 1
    /\ Len(app_alerts) = BufferSize
    /\ app_alerts[1] = appended - BufferSize + 1

\* C13: adaptive cadence: after a scheduled cycle whose new, closed and
\* modified sets are all empty the scheduler sleeps SCAN_INTERVAL_IDLE, after
\* a cycle with at least one change it sleeps SCAN_INTERVAL_BUSY.
C13_AdaptiveCadence ==
    pc[Background] = "sleep" =>
        interval = IF t_changes[Background] = EmptyChanges
                   THEN SCAN_INTERVAL_IDLE ELSE SCAN_INTERVAL_BUSY

\* C14: failure isolation: when a step of a scheduled cycle raises, the
\* scheduler has is_scanning false while it sleeps the cooldown of 10 s and
\* then starts another cycle: the flag stays false until that cycle sets it
\* and the sleeping thread can always go on to its next pass.
C14_FailureIsolation ==
    /\ pc[Background] = "cooldown" => (~is_scanning /\ interval = Cooldown)
    /\ pc[Background] \in {"cooldown", "start"} => ~is_scanning
    /\ pc[Background] = "cooldown" => ENABLED BgWake

\* The cooldown after a cycle that raised once scan_ports had stored its
\* snapshot, a scan-now thread running meanwhile.
C14_Witness ==
    /\ pc[Background] = "cooldown"
    /\ ~is_scanning
    /\ interval = Cooldown
    /\ shared_last # <<>>
    /\ \E q \in QuickThreads : pc[q] \in InScanPorts

\* C15: a scan-now request that finds is_scanning true is answered 409 and
\* changes nothing else: no thread leaves "unborn" or "done" (none spawned,
\* none queued) and the flag, the snapshot and every thread's locals and
\* position stay as they are.
C15_ConflictChangesNothing ==
    [][(is_scanning /\ http' # http) =>
          /\ http' = 409
          /\ UNCHANGED <<is_scanning, shared_last, pc, t_scan, t_changes,
                         t_passed, interval>>]_vars

\* The first scan-now request ever, made while a scheduled cycle runs.
C15_Witness ==
    /\ http = 409
    /\ is_scanning
    /\ \A q \in QuickThreads : pc[q] = "unborn"

\* C17: scanner.last_scan_result is written only by the background scanner
\* thread: every step that changes it is the background thread's store step
\* at the end of scan_ports.
C17_OnlyBackgroundWrites ==
    [][shared_last' # shared_last =>
          (pc[Background] = "store" /\ pc'[Background] = "alert")]_vars

\* C16: across any sequence of store operations no alert is removed from
\* the table, no field of an alert in the table other than resolved
\* changes, and a resolved flag never goes from true back to false.
C16_AppendOnly ==
    [][/\ Len(db_alerts') >= Len(db_alerts)
       /\ \A i \in 1..Len(db_alerts) :
            /\ [db_alerts'[i] EXCEPT !.resolved = db_alerts[i].resolved] = db_alerts[i]
            /\ db_alerts[i].resolved => db_alerts'[i].resolved]_vars

\* An alert written after another one was resolved.
C16_Witness ==
    /\ call.op \in {"check_port_changes", "add_custom_alert"}
    /\ call.status = "returned"
    /\ LastOutcome = "ok"
    /\ Len(call.before) = 1
    /\ call.before[1].resolved
    /\ Len(db_alerts) = 2
    /\ db_alerts[1].resolved

\* C18: every Modified change handed to check_port_changes produces an
\* alert: when the call has returned without failure, the alerts it
\* returned and the table hold one for the port of every changed_ports
\* entry.
C18_ModifiedAlerted ==
    (call.op = "check_port_changes" /\ call.status = "returned" /\ LastOutcome = "ok") =>
        \A i \in 1..Len(call.arg.changes.changed_ports) :
            LET port == call.arg.changes.changed_ports[i].port_data.port
            IN  /\ \E j \in 1..Len(call.result.rows) : call.result.rows[j].port = port
                /\ \E j \in 1..Len(db_alerts) :
                      db_alerts[j].port = port /\ ~Exists(call.before, j)

\* Ids are handed out in the order the Alert objects are built, each with
\* timestamp = datetime.now(): the row of the larger id is the newer one.
Matching(db, resolved) == {i \in 1..Len(db) : db[i].resolved = resolved}

\* C20: get_alerts(resolved, limit) returns only alerts of the table whose
\* resolved flag equals the argument, newest first, and when a limit is
\* given at most limit of them, the newest ones.
C20_GetAlerts ==
    (call.op = "get_alerts" /\ call.status = "returned" /\ LastOutcome = "ok") =>
        LET rows == call.result.rows
            match == Matching(db_alerts, call.arg.resolved)
        IN  /\ \A i \in 1..Len(rows) :
                  /\ rows[i].id \in match
                  /\ rows[i] = db_alerts[rows[i].id]
            /\ \A i, j \in 1..Len(rows) : i < j => rows[i].id > rows[j].id
            /\ call.arg.limit # <<>> =>
                  /\ Len(rows) = Min(call.arg.limit[1], Cardinality(match))
                  /\ \A k \in match :
                        (\A i \in 1..Len(rows) : rows[i].id # k) =>
                            \A i \in 1..Len(rows) : rows[i].id > k

\* The connections whose owning process is resolved: a pid, and a lookup
\* that returned the process.
Resolved(list) ==
    {j \in 1..Len(list) : list[j].pid # 0 /\ list[j].lookup.kind = "ok"}

\* The connections that have no pid or whose lookup fails with
\* NoSuchProcess or AccessDenied.
Unresolved(list) ==
    {j \in 1..Len(list) :
        list[j].pid = 0 \/ list[j].lookup.kind \in {"NoSuchProcess", "AccessDenied"}}

\* C19: every entry of a snapshot parse_port_info returns has resolved
\* owning-process metadata: it comes from a connection with a pid whose
\* lookup succeeded, a connection without pid or with a lookup that failed
\* with NoSuchProcess or AccessDenied has no entry, and no entry carries
\* the process name 'unknown'.
C19_ResolvedMetadata ==
    parsed =>
        /\ \A i \in 1..Len(port_info) :
              /\ port_info[i].pid # 0
              /\ port_info[i].process_name # Name_unknown
              /\ \E j \in Resolved(conns) :
                    /\ conns[j].port = port_info[i].port
                    /\ conns[j].pid = port_info[i].pid
                    /\ conns[j].lookup.name = port_info[i].process_name
        /\ \A j \in Unresolved(conns) :
              \A i \in 1..Len(port_info) :
                  ~(port_info[i].port = conns[j].port /\ port_info[i].pid = conns[j].pid)
        /\ Len(port_info) <= Cardinality(Resolved(conns))

\* A snapshot with an entry, from a list that also held a socket without
\* pid and a process that was gone at the lookup.
C19_Witness ==
    /\ parsed
    /\ Len(port_info) = 1
    /\ \E j \in 1..Len(conns) : conns[j].pid = 0 /\ conns[j].laddr
    /\ \E j \in 1..Len(conns) : conns[j].lookup.kind = "NoSuchProcess"

\* What the claim lists as the input of a classification.
KindPortNameState(input) ==
    <<input.change_type, input.port_data.port, input.port_data.process_name,
      input.port_data.state>>

\* C21 as stated: two classifications of changes with identical (kind,
\* port, process name, connection state) yield the identical level and the
\* identical message.
C21_SameFourFields ==
    (cl_twin_level # "" /\ KindPortNameState(cl_in) = KindPortNameState(cl_twin)) =>
        (cl_level = cl_twin_level /\ cl_msg = cl_twin_msg)

\* C21: classification is deterministic: two classifications of changes with
\* identical kind, port, protocol, process name and connection state yield
\* the identical level and the identical message, whatever the pid and
\* whether or not another classification ran before; the level is the same
\* already when kind, port, process name and state are.
C21_Deterministic ==
    (cl_twin_level # "" /\ KindPortNameState(cl_in) = KindPortNameState(cl_twin)) =>
        /\ cl_level = cl_twin_level
        /\ cl_in.port_data.protocol = cl_twin.port_data.protocol =>
              cl_msg = cl_twin_msg

\* Two ERROR classifications of one port of two processes' sockets.
C21_Witness ==
    /\ cl_twin_level = "ERROR"
    /\ cl_in.port_data.pid # cl_twin.port_data.pid
    /\ cl_in.port_data.protocol = cl_twin.port_data.protocol
    /\ cl_in.port_data.process_name = Name_Ncat
    /\ cl_in.port_data.port = 12345
    /\ Len(cl_msg) = 3
    /\ cl_msg = cl_twin_msg

\* The half-open and half-closed TCP statuses as psutil spells them.
PsutilSuspicious == {"SYN_SENT", "SYN_RECV", "FIN_WAIT1", "FIN_WAIT2", "CLOSE_WAIT"}

\* Rule 1: New on a high-risk port.
Rule1(input) ==
    input.change_type = "new" /\ input.port_data.port \in high_risk_ports

ByHighRiskTool(input) ==
    \E proc \in high_risk_processes :
        Contains(Lower(input.port_data.process_name), proc)

\* Rule 2: New by a high-risk tool.
Rule2(input) == input.change_type = "new" /\ ByHighRiskTool(input)

\* C24: a change whose entry carries a half-open or half-closed TCP status
\* as psutil reports it and that matches neither rule 1 nor rule 2 is
\* classified WARNING.
C24_SuspiciousState ==
    (/\ cl_level # ""
     /\ cl_in.port_data.state \in PsutilSuspicious
     /\ ~Rule1(cl_in)
     /\ ~Rule2(cl_in)) => cl_level = "WARNING"

\* C25: for every port and state, a New change whose process name contains,
\* case-insensitively, a name of the high-risk tool list is classified
\* ERROR, and a Closed change by such a process is never ERROR.
C25_HighRiskTool ==
    (cl_level # "" /\ ByHighRiskTool(cl_in)) =>
        /\ cl_in.change_type = "new" => cl_level = "ERROR"
        /\ cl_in.change_type = "closed" => cl_level # "ERROR"

\* A tool named in another case, on a medium-risk port, in a state the
\* classifier lists as suspicious: the tool rule wins.
C25_Witness ==
    /\ cl_in.change_type = "new"
    /\ cl_in.port_data.process_name = Name_Ncat
    /\ cl_in.port_data.port = 8080
    /\ cl_in.port_data.state = "syn-sent"
    /\ cl_level = "ERROR"

\* C26: a Closed change is never classified ERROR: it is WARNING exactly
\* when its state is one the classifier lists as suspicious or its port is
\* in the high-risk set, and INFO otherwise.
C26_ClosedNeverError ==
    (cl_level # "" /\ cl_in.change_type = "closed") =>
        /\ cl_level # "ERROR"
        /\ cl_level = "WARNING" <=>
              (cl_in.port_data.state \in suspicious_states
               \/ cl_in.port_data.port \in high_risk_ports)
        /\ cl_level \in {"WARNING", "INFO"}

\* Closed on 8080, which is only in the medium-risk set, state LISTEN.
C26_Witness ==
    /\ cl_in.change_type = "closed"
    /\ cl_in.port_data.port = 8080
    /\ cl_in.port_data.port \notin high_risk_ports
    /\ cl_in.port_data.state = "LISTEN"
    /\ cl_in.port_data.process_name = Name_python
    /\ cl_level = "INFO"

\* C27: the message of every alert classified ERROR ends with a rationale:
\* the note naming the port when the port is in the high-risk set, otherwise
\* the note naming the process that triggered the high-risk tool rule.
C27_ErrorRationale ==
    cl_level = "ERROR" =>
        LET last == cl_msg[Len(cl_msg)]
        IN  IF cl_in.port_data.port \in high_risk_ports
            THEN last.part = "port_note" /\ last.port = cl_in.port_data.port
            ELSE last.part = "tool_note"
                 /\ last.name = cl_in.port_data.process_name

\* Every key of list is reported exactly once in ports, with the entry the
\* keyed dict keeps for it, and ports reports no other key.
ReportsAll(ports, list) ==
    /\ Keys(ports) = Keys(list)
    /\ \A k \in Keys(list) :
          /\ CountKey(ports, k) = 1
          /\ LastWithKey(ports, k) = LastWithKey(list, k)

\* C22: cold start: after the first scan, which finds no previous
\* snapshot, every key of the current snapshot is in new_ports, closed_ports
\* and changed_ports are empty, and the snapshot is stored as the previous
\* snapshot of the next scan.
C22_ColdStart ==
    (scanned /\ first) =>
        /\ previous = <<>>
        /\ ReportsAll(changes.new_ports, current_scan)
        /\ changes.closed_ports = <<>>
        /\ changes.changed_ports = <<>>
        /\ ReportsAll(last_scan_result, current_scan)

\* A first scan that found two keys.
C22_Witness ==
    /\ scanned
    /\ first
    /\ ~enum_failed
    /\ Cardinality(Keys(current_scan)) = 2
    /\ Len(changes.new_ports) = 2
    /\ Len(last_scan_result) = 2

\* C28: when the enumeration of endpoints fails totally, scan_ports returns
\* all the same: the current snapshot is empty, every key of the previous
\* snapshot is in closed_ports (and check_port_changes builds one alert for
\* each), nothing is new or changed, and the stored snapshot is empty; the
\* next scan whose enumeration succeeds reports every key it finds as new.
C28_EnumerationFailure ==
    /\ []((scanned /\ enum_failed) =>
            /\ current_scan = <<>>
            /\ ReportsAll(changes.closed_ports, previous)
            /\ changes.new_ports = <<>>
            /\ changes.changed_ports = <<>>
            /\ Len(NewAlerts(changes)) = Cardinality(Keys(previous))
            /\ last_scan_result = <<>>)
    /\ [][(scanned /\ enum_failed /\ ~enum_failed') =>
            /\ ReportsAll(changes'.new_ports, current_scan')
            /\ changes'.closed_ports = <<>>
            /\ changes'.changed_ports = <<>>]_vars

\* A failed enumeration after a scan that had found two keys.
C28_Witness ==
    /\ scanned
    /\ enum_failed
    /\ Cardinality(Keys(previous)) = 2
    /\ Len(changes.closed_ports) = 2
    /\ last_scan_result = <<>>

\* C23: a change whose port is in IGNORE_PORTS is filtered out before
\* classification: no alert check_port_changes returns (the alerts the
\* scheduler buffers) and no row it adds to the table is for such a port.
C23_IgnoreList ==
    (call.op = "check_port_changes" /\ call.status = "returned") =>
        /\ \A j \in 1..Len(call.result.rows) :
              call.result.rows[j].port \notin IGNORE_PORTS
        /\ \A j \in 1..Len(db_alerts) :
              ~Exists(call.before, j) => db_alerts[j].port \notin IGNORE_PORTS

\* C29: an error that is not a transient connectivity error is not
\* retried: the invocation that raised it is the last one of the call, no
\* backoff follows it, and the call returns the empty result (zero counts
\* for get_alert_stats); raised by the first invocation, the operation was
\* invoked exactly once.
C29_OtherErrorNotRetried ==
    \A i \in 1..Len(call.outcomes) :
        call.outcomes[i] = "other" =>
            /\ i = Len(call.outcomes)
            /\ call.tries = i
            /\ call.status = "returned"
            /\ IF call.op = "get_alert_stats"
               THEN call.result.kind = "stats" /\ call.result.stats = ZeroStats
               ELSE call.result.kind = "list" /\ call.result.rows = <<>>

\* A write whose first invocation raised another error at the commit.
C29_Witness ==
    /\ call.op = "check_port_changes"
    /\ NewAlerts(call.arg.changes) # <<>>
    /\ call.outcomes = <<"other">>
    /\ call.tries = 1
    /\ call.attempt = 0
    /\ call.status = "returned"
    /\ call.result.rows = <<>>

\* C30: between a transiently failed attempt and the next attempt of the
\* same call the session is rolled back: every attempt after the first
\* starts with nothing pending in the caller's session.
C30_RollbackBeforeRetry ==
    (call.status = "running" /\ call.attempt > 0) =>
        session[call.ctx] = EmptySession

\* The second attempt of a write whose first attempt failed at the commit.
C30_Witness ==
    /\ call.status = "running"
    /\ call.attempt = 1
    /\ call.op = "check_port_changes"
    /\ Len(NewAlerts(call.arg.changes)) = 2
    /\ call.outcomes = <<"transient">>
    /\ session[call.ctx] = EmptySession

Suffix(s, t) ==
    /\ Len(t) <= Len(s)
    /\ SubSeq(s, Len(s) - Len(t) + 1, Len(s)) = t

C35_FailedResolveIsNotFound ==
    (call.op = "resolve_alert" /\ call.status = "returned") =>
        /\ (LastOutcome \in {"transient", "other"} /\ Exists(call.before, call.arg.id)) =>
              /\ call.result = ListResult(<<>>)
              /\ ResolveHttp(call) = 404
              /\ db_alerts = call.before
        /\ (LastOutcome = "ok" /\ ~Exists(call.before, call.arg.id)) =>
              /\ call.result = BoolResult(FALSE)
              /\ ResolveHttp(call) = 404

\* Three transient failures while resolving an open alert.
C35_Witness ==
    /\ call.op = "resolve_alert"
    /\ call.status = "returned"
    /\ call.outcomes = AllTransient
    /\ Exists(call.before, call.arg.id)
    /\ ~db_alerts[call.arg.id].resolved
    /\ ResolveHttp(call) = 404

\* C34: over any sequence of scan_ports calls the New and Closed reports
\* of a key alternate, starting with New: a call reports a key New only if
\* the key has never been reported or its latest report was Closed, and
\* reports it Closed only if its latest report was New.
C34_NewClosedAlternate ==
    [][/\ \A k \in Keys(changes'.new_ports) : k \notin open_reported
       /\ \A k \in Keys(changes'.closed_ports) : k \in open_reported
       /\ Keys(changes'.new_ports) \cap Keys(changes'.closed_ports) = {}]_vars

\* One call reports 22/TCP Closed after its New and 8080/TCP New.
C34_Witness ==
    /\ Keys(changes.closed_ports) = {<<22, "TCP">>}
    /\ Keys(changes.new_ports) = {<<8080, "TCP">>}
    /\ open_reported = {<<8080, "TCP">>}
    /\ ~first

\* C33: scheduler liveness: provided the calls of a pass return, whenever
\* is_scanning has been set it is eventually reset, and whenever the
\* scheduler is idle (flag reset) it eventually starts another pass and
\* sets the flag again; so the loop never ends.
C33_SchedulerLive ==
    /\ is_scanning ~> ~is_scanning
    /\ ~is_scanning ~> (is_scanning /\ pc[Background] = "collect")

\* The scheduler asleep after a pass that completed.
C33_Witness ==
    /\ pc[Background] = "sleep"
    /\ ~is_scanning
    /\ shared_last # <<>>
    /\ interval = SCAN_INTERVAL_BUSY

\* Threads that hold the Alert object they loaded and have neither
\* committed nor given up: inside a write attempt or between two of them.
InWrite == {r \in Resolvers : w_pc[r] \in {"commit", "backoff"}}

\* C32 (as claimed): write attempts of concurrent threads on one alert
\* record are serialized: from a thread's load of the record to the end of
\* its call, retries and rollbacks included, no other thread is between its
\* own load and the end of its call.
C32_WritesSerialized ==
    Cardinality(InWrite) <= 1

====
